---- MODULE Spec2Model ----
(***************************************************************************)
(* Model of webgui/server.py: the ConnectionManager registry, the          *)
(* per-connection websocket_endpoint sessions and the broadcast_stats      *)
(* scheduler, all coroutines of one asyncio event loop.                    *)
(*                                                                         *)
(* A step of the model is the code a coroutine runs between two awaits:    *)
(* coroutines interleave only at awaits, and every await may suspend.      *)
(* The outcome of an awaited transport call (accept, send_json,            *)
(* receive_text) is the environment's choice: it returns, it raises, or,   *)
(* for the scheduler's send_json, it never completes.                      *)
(*                                                                         *)
(* The messages of a connection are recorded in the order of the           *)
(* send_json calls, each with the way the call ended.  Timestamps are the  *)
(* ordinal of the collection (get_system_info call) that produced them.    *)
(*                                                                         *)
(* Spec is sessions and scheduler; FairSpec adds what the event loop       *)
(* guarantees; QuerySpec adds the HTTP stats endpoints, which keep nothing *)
(* of what they collect; ProviderSpec calls get_system_info and            *)
(* get_bot_info on their own, over every kind of input.                    *)
(***************************************************************************)
EXTENDS Integers, Sequences, FiniteSets, TLC

\* Number of websocket clients that may call /ws (each WebSocket object is
\* handed to websocket_endpoint once).
NumConns == 2
\* Number of iterations of the "while True" loop of broadcast_stats explored.
MaxTicks == 2

\* Number of direct get_system_info() calls explored.
MaxStamps == 4

Conns == 1 .. NumConns
\* The value of the loop variable "connection" outside the fan-out.
NoConn == 0

VARIABLES
    active_connections, \* manager.active_connections, a Python list
    client_state,       \* websocket.client_state of every WebSocket
    sess,               \* where each websocket_endpoint coroutine is suspended
    cause,              \* why a terminated websocket_endpoint terminated
    schedPc,            \* where broadcast_stats is suspended
    tick,               \* iterations of broadcast_stats started so far
    it_index,           \* items the list iterator of broadcast has handed out
    connection,         \* the loop variable of broadcast
    disconnected,       \* the local list "disconnected" of broadcast
    message,            \* the argument of broadcast: this tick's stats
    stalled,            \* the awaited send_json of broadcast will never return
    now,                \* collection instants taken so far (datetime.now())
    sent,               \* per connection: the send_json calls, in call order
    tickReg,            \* history: the registry when the tick's fan-out began
    tickCalls,          \* history: provider calls made by the current tick
    added,              \* history: connections appended by connect
    removeCalls,        \* history: per connection, calls of disconnect
    removals,           \* history: per connection, list.remove executions
    dropped,            \* history: connections this tick collected unsent
    lastQuery,          \* history: the stats endpoint that answered last
    qCalls,             \* history: provider calls that endpoint made
    bot_instance,       \* the global bot_instance
    hostResult,         \* what the last direct get_system_info() returned
    hostIn,             \* history: whether it was called, and with a fault
    botResult,          \* what the last direct get_bot_info() returned
    botIn               \* history: the instance and its behaviour at the call

vars == << active_connections, client_state, sess, cause, schedPc, tick,
           it_index, connection, disconnected, message, stalled, now, sent,
           tickReg, tickCalls, added, removeCalls, removals, dropped,
           lastQuery, qCalls, bot_instance, hostResult, hostIn, botResult,
           botIn >>

schedVars == << schedPc, tick, it_index, connection, disconnected, message,
                stalled, tickReg, tickCalls, dropped >>

\* The state of the HTTP stats endpoints and of direct provider calls.
httpVars == << lastQuery, qCalls, bot_instance, hostResult, hostIn, botResult,
               botIn >>

----------------------------------------------------------------------------
\* Python list helpers.

InList(s, x) == \E i \in 1 .. Len(s) : s[i] = x

Elems(s) == { s[i] : i \in 1 .. Len(s) }

\* list.count(x).
Count(s, x) == Cardinality({ i \in 1 .. Len(s) : s[i] = x })

\* list.remove(x): drops the first occurrence of x.
RECURSIVE ListRemove(_, _)
ListRemove(s, x) ==
    IF s = << >> THEN << >>
    ELSE IF Head(s) = x THEN Tail(s)
    ELSE << Head(s) >> \o ListRemove(Tail(s), x)

----------------------------------------------------------------------------
\* ConnectionManager.

\* connect, after "await websocket.accept()" has returned: an unconditional
\* append.
connect(reg, ws) == Append(reg, ws)

\* A disconnect that pops the newest entry in place of the one named.
disconnect_pop(reg, ws) ==
    IF InList(reg, ws) THEN SubSeq(reg, 1, Len(reg) - 1) ELSE reg

\* disconnect: remove if present, otherwise nothing.
disconnect(reg, ws) == IF InList(reg, ws) THEN ListRemove(reg, ws) ELSE reg

\* "for conn in disconnected: self.disconnect(conn)".
RECURSIVE DisconnectAll(_, _)
DisconnectAll(reg, disc) ==
    IF disc = << >> THEN reg
    ELSE DisconnectAll(disconnect(reg, Head(disc)), Tail(disc))

\* list.remove executions of DisconnectAll(reg, disc) on connection c.
RECURSIVE RemovalsIn(_, _, _)
RemovalsIn(reg, disc, c) ==
    IF disc = << >> THEN 0
    ELSE (IF Head(disc) = c /\ InList(reg, c) THEN 1 ELSE 0)
         + RemovalsIn(disconnect(reg, Head(disc)), Tail(disc), c)

----------------------------------------------------------------------------
\* Metrics providers.

\* An error dictionary that was built without its timestamp.
get_system_info_noStamp(t, fault) ==
    [ timestamp |-> IF fault THEN 0 ELSE t, error |-> fault ]

\* A variant that stamps the snapshot with the time of day only, which wraps
\* around: a later collection can carry a smaller timestamp.
get_system_info_timeOfDay(t, fault) == [ timestamp |-> t % 2, error |-> fault ]

\* get_system_info: the metrics with their timestamp, or, when a step of the
\* collection raises, the error dictionary with its timestamp.
get_system_info(t, fault) == [ timestamp |-> t, error |-> fault ]

\* A get_bot_info without the "is None" test: reading the attributes of None
\* raises inside the try block.
get_bot_info_noNoneTest(instance, ready, fault) ==
    IF instance = "None" \/ fault THEN [ status |-> "error" ]
    ELSE [ status |-> IF ready THEN "online" ELSE "starting" ]

\* get_bot_info: "not_connected" while no instance is bound; otherwise
\* "online" or "starting" after is_ready(), or the error dictionary when
\* reading the instance raises.
get_bot_info(instance, ready, fault) ==
    IF instance = "None" THEN [ status |-> "not_connected" ]
    ELSE IF fault THEN [ status |-> "error" ]
    ELSE [ status |-> IF ready THEN "online" ELSE "starting" ]

NoMessage == [ timestamp |-> 0, error |-> FALSE ]

\* One send_json call on a connection: the envelope type, the system group,
\* the tick that sent it (0 for the session) and how the call ended.
Envelope(type, system, t) ==
    [ type |-> type, system |-> system, tick |-> t, res |-> "inflight" ]

\* The log with the call of this type that is in flight ended as res.
EndSend(log, type, res) ==
    [ i \in 1 .. Len(log) |->
        IF log[i].type = type /\ log[i].res = "inflight"
        THEN [ log[i] EXCEPT !.res = res ] ELSE log[i] ]

----------------------------------------------------------------------------
Init ==
    /\ active_connections = << >>
    /\ client_state = [ c \in Conns |-> "CONNECTING" ]
    /\ sess = [ c \in Conns |-> "new" ]
    /\ cause = [ c \in Conns |-> "none" ]
    /\ schedPc = "sleep"
    /\ tick = 0
    /\ it_index = 0
    /\ connection = NoConn
    /\ disconnected = << >>
    /\ message = NoMessage
    /\ stalled = FALSE
    /\ now = 0
    /\ dropped = {}
    /\ lastQuery = "none"
    /\ qCalls = [ system |-> 0, bot |-> 0 ]
    /\ bot_instance = "None"
    /\ hostResult = NoMessage
    /\ hostIn = [ called |-> FALSE, fault |-> FALSE ]
    /\ botResult = [ status |-> "none" ]
    /\ botIn = [ called |-> FALSE, instance |-> "None", ready |-> FALSE,
                 fault |-> FALSE ]
    /\ sent = [ c \in Conns |-> << >> ]
    /\ tickReg = << >>
    /\ tickCalls = [ system |-> 0, bot |-> 0 ]
    /\ added = {}
    /\ removeCalls = [ c \in Conns |-> 0 ]
    /\ removals = [ c \in Conns |-> 0 ]

----------------------------------------------------------------------------
\* websocket_endpoint: one session per connection.

\* manager.disconnect(websocket), with the history of the call.
Deregister(c) ==
    /\ active_connections' = disconnect(active_connections, c)
    /\ removeCalls' = [ removeCalls EXCEPT ![c] = @ + 1 ]
    /\ removals' = [ removals EXCEPT
                       ![c] = @ + (IF InList(active_connections, c) THEN 1 ELSE 0) ]

\* The endpoint is called and suspends in "await websocket.accept()".
SessStart(c) ==
    /\ sess[c] = "new"
    /\ sess' = [ sess EXCEPT ![c] = "accept" ]
    /\ UNCHANGED << httpVars,
                    active_connections, client_state, cause, schedVars, now,
                    sent, added, removeCalls, removals >>

\* A session that, once registered, suspends before it calls send_json for
\* the initial message.
SessAcceptOk_late(c) ==
    /\ sess[c] = "accept"
    /\ client_state' = [ client_state EXCEPT ![c] = "CONNECTED" ]
    /\ active_connections' = connect(active_connections, c)
    /\ added' = added \cup {c}
    /\ sess' = [ sess EXCEPT ![c] = "initial" ]
    /\ UNCHANGED << httpVars,
                    cause, schedVars, now, sent, removeCalls, removals >>

\* accept returns: connect appends the connection and returns, and the
\* session, without an await in between, collects the initial snapshot and
\* calls send_json, where it suspends.
SessAcceptOk(c) ==
    /\ sess[c] = "accept"
    /\ client_state' = [ client_state EXCEPT ![c] = "CONNECTED" ]
    /\ active_connections' = connect(active_connections, c)
    /\ added' = added \cup {c}
    /\ \E fault \in BOOLEAN :
         sent' = [ sent EXCEPT ![c] =
                     Append(@, Envelope("initial", get_system_info(now + 1, fault), 0)) ]
    /\ now' = now + 1
    /\ sess' = [ sess EXCEPT ![c] = "initial" ]
    /\ UNCHANGED << httpVars, cause, schedVars, removeCalls, removals >>

\* accept raises: connect is called outside the try, the endpoint ends with
\* the exception and nothing was registered.
SessAcceptFail(c) ==
    /\ sess[c] = "accept"
    /\ sess' = [ sess EXCEPT ![c] = "closed" ]
    /\ cause' = [ cause EXCEPT ![c] = "accept_error" ]
    /\ UNCHANGED << httpVars,
                    active_connections, client_state, schedVars, now, sent,
                    added, removeCalls, removals >>

\* The initial send_json returns: the session enters its receive loop.
SessInitialOk(c) ==
    /\ sess[c] = "initial"
    /\ sent' = [ sent EXCEPT ![c] = EndSend(@, "initial", "ok") ]
    /\ sess' = [ sess EXCEPT ![c] = "recv" ]
    /\ UNCHANGED << httpVars,
                    active_connections, client_state, cause, schedVars, now,
                    added, removeCalls, removals >>

\* The initial send_json raises: "except Exception" (or WebSocketDisconnect)
\* calls manager.disconnect.
SessInitialFail(c) ==
    /\ sess[c] = "initial"
    /\ sent' = [ sent EXCEPT ![c] = EndSend(@, "initial", "fail") ]
    /\ Deregister(c)
    /\ sess' = [ sess EXCEPT ![c] = "closed" ]
    /\ cause' = [ cause EXCEPT ![c] = "error" ]
    /\ UNCHANGED << httpVars, client_state, schedVars, now, added >>

\* wait_for(receive_text(), 1.0) returns a text or raises TimeoutError, which
\* is passed over: the session goes on to "await asyncio.sleep(0.1)".
SessRecvReturn(c) ==
    /\ sess[c] = "recv"
    /\ client_state[c] = "CONNECTED"
    /\ sess' = [ sess EXCEPT ![c] = "sleep" ]
    /\ UNCHANGED << httpVars,
                    active_connections, client_state, cause, schedVars, now,
                    sent, added, removeCalls, removals >>

\* asyncio.sleep(0.1) returns: the next iteration awaits receive_text.
SessWake(c) ==
    /\ sess[c] = "sleep"
    /\ sess' = [ sess EXCEPT ![c] = "recv" ]
    /\ UNCHANGED << httpVars,
                    active_connections, client_state, cause, schedVars, now,
                    sent, added, removeCalls, removals >>

\* The peer's close reaches the pending receive: client_state becomes
\* DISCONNECTED; the session coroutine is resumed in a later step.
TransportClose(c) ==
    /\ sess[c] = "recv"
    /\ client_state[c] = "CONNECTED"
    /\ client_state' = [ client_state EXCEPT ![c] = "DISCONNECTED" ]
    /\ UNCHANGED << httpVars,
                    active_connections, sess, cause, schedVars, now, sent,
                    added, removeCalls, removals >>

\* receive_text raises WebSocketDisconnect: "except WebSocketDisconnect".
SessRecvDisconnect(c) ==
    /\ sess[c] = "recv"
    /\ client_state[c] = "DISCONNECTED"
    /\ Deregister(c)
    /\ sess' = [ sess EXCEPT ![c] = "closed" ]
    /\ cause' = [ cause EXCEPT ![c] = "peer" ]
    /\ UNCHANGED << httpVars, client_state, schedVars, now, sent, added >>

\* receive_text raises another exception (a transport read error):
\* "except Exception".
SessRecvError(c) ==
    /\ sess[c] = "recv"
    /\ client_state[c] = "CONNECTED"
    /\ Deregister(c)
    /\ sess' = [ sess EXCEPT ![c] = "closed" ]
    /\ cause' = [ cause EXCEPT ![c] = "error" ]
    /\ UNCHANGED << httpVars, client_state, schedVars, now, sent, added >>

\* The session task is cancelled at one of its awaits: CancelledError is a
\* BaseException, neither except clause catches it, and (for the await in
\* connect) the accept is outside the try: the endpoint ends without calling
\* manager.disconnect.
SessCancel(c) ==
    /\ sess[c] \in { "accept", "initial", "recv", "sleep" }
    /\ sent' = [ sent EXCEPT ![c] = EndSend(@, "initial", "cancelled") ]
    /\ sess' = [ sess EXCEPT ![c] = "closed" ]
    /\ cause' = [ cause EXCEPT ![c] = "cancel" ]
    /\ UNCHANGED << httpVars,
                    active_connections, client_state, schedVars, now, added,
                    removeCalls, removals >>

----------------------------------------------------------------------------
\* ConnectionManager.broadcast and broadcast_stats.

\* A loop that sends to every connection it visits, whatever its
\* client_state.
Scan_noStateCheck(reg, cs, i, disc) ==
    IF i >= Len(reg) THEN [ done |-> TRUE, i |-> i, disc |-> disc ]
    ELSE [ done |-> FALSE, i |-> i + 1, disc |-> disc ]

\* "for connection in self.active_connections", run from the iterator
\* position i (the number of items already handed out) over the list as it
\* is now, up to the next send_json (done = FALSE, i the position of the
\* connection to send to) or to the end of the list (done = TRUE).
\* Connections whose client_state is not CONNECTED are appended to the
\* disconnected list without a send.
RECURSIVE Scan(_, _, _, _)
Scan(reg, cs, i, disc) ==
    IF i >= Len(reg) THEN [ done |-> TRUE, i |-> i, disc |-> disc ]
    ELSE IF cs[reg[i + 1]] = "CONNECTED"
         THEN [ done |-> FALSE, i |-> i + 1, disc |-> disc ]
         ELSE Scan(reg, cs, i + 1, Append(disc, reg[i + 1]))

\* The connections of the list disc that were put on it by the else branch,
\* without a send_json call of tick t.
Unsent(disc, log, t) ==
    { c \in Elems(disc) :
        ~ \E k \in 1 .. Len(log[c]) :
            log[c][k].type = "update" /\ log[c][k].tick = t }

\* The fan-out loop resumed at iterator position i with the local list disc:
\* either it suspends in the next send_json of msg, or the loop ends, the
\* clean-up loop disconnects every collected connection and broadcast
\* returns to "await asyncio.sleep(1)".
FanOut(i, disc, log, msg, t) ==
    LET r == Scan(active_connections, client_state, i, disc) IN
    IF r.done
    THEN /\ active_connections' = DisconnectAll(active_connections, r.disc)
         /\ removeCalls' = [ c \in Conns |->
                               removeCalls[c] + Count(r.disc, c) ]
         /\ removals' = [ c \in Conns |->
                            removals[c] + RemovalsIn(active_connections, r.disc, c) ]
         /\ schedPc' = "sleep"
         /\ it_index' = 0
         /\ connection' = NoConn
         /\ disconnected' = << >>
         /\ dropped' = Unsent(r.disc, log, t)
         /\ sent' = log
    ELSE /\ schedPc' = "sending"
         /\ it_index' = r.i
         /\ connection' = active_connections[r.i]
         /\ disconnected' = r.disc
         /\ dropped' = Unsent(r.disc, log, t)
         /\ sent' = [ log EXCEPT ![active_connections[r.i]] =
                        Append(@, Envelope("update", msg, t)) ]
         /\ UNCHANGED << active_connections, removeCalls, removals >>

\* A tick that collects before it looks at the registry.
TickSkip_collect ==
    /\ schedPc = "sleep"
    /\ tick < MaxTicks
    /\ active_connections = << >>
    /\ tick' = tick + 1
    /\ tickReg' = << >>
    /\ dropped' = {}
    /\ \E fault \in BOOLEAN : message' = get_system_info(now + 1, fault)
    /\ now' = now + 1
    /\ tickCalls' = [ system |-> 1, bot |-> 1 ]
    /\ UNCHANGED << httpVars,
                    active_connections, client_state, sess, cause, schedPc,
                    it_index, connection, disconnected, stalled, sent,
                    added, removeCalls, removals >>

\* A tick that finds "manager.active_connections" empty: nothing is
\* collected, broadcast is not called, the scheduler sleeps again.
TickSkip ==
    /\ schedPc = "sleep"
    /\ tick < MaxTicks
    /\ active_connections = << >>
    /\ tick' = tick + 1
    /\ tickReg' = << >>
    /\ dropped' = {}
    /\ tickCalls' = [ system |-> 0, bot |-> 0 ]
    /\ UNCHANGED << httpVars,
                    active_connections, client_state, sess, cause, schedPc,
                    it_index, connection, disconnected, message, stalled, now,
                    sent, added, removeCalls, removals >>

\* A tick that finds the registry non-empty: get_system_info and
\* get_bot_info are called once each, the stats dictionary is built and
\* broadcast starts its fan-out.
TickBroadcast ==
    /\ schedPc = "sleep"
    /\ tick < MaxTicks
    /\ active_connections # << >>
    /\ tick' = tick + 1
    /\ tickReg' = active_connections
    /\ tickCalls' = [ system |-> 1, bot |-> 1 ]
    /\ now' = now + 1
    /\ stalled' = FALSE
    /\ \E fault \in BOOLEAN :
         /\ message' = get_system_info(now + 1, fault)
         /\ FanOut(0, << >>, sent, get_system_info(now + 1, fault), tick + 1)
    /\ UNCHANGED << httpVars, client_state, sess, cause, added >>

\* A fan-out that collects the stats again for the recipients still to come.
BcastSendOk_recollect ==
    /\ schedPc = "sending"
    /\ ~ stalled
    /\ message' = get_system_info(now + 1, message.error)
    /\ now' = now + 1
    /\ tickCalls' = [ system |-> tickCalls.system + 1, bot |-> tickCalls.bot + 1 ]
    /\ FanOut(it_index, disconnected,
              [ sent EXCEPT ![connection] = EndSend(@, "update", "ok") ],
              get_system_info(now + 1, message.error), tick)
    /\ UNCHANGED << httpVars,
                    client_state, sess, cause, tick, stalled, tickReg, added >>

\* The awaited send_json returns: the loop goes on.
BcastSendOk ==
    /\ schedPc = "sending"
    /\ ~ stalled
    /\ FanOut(it_index, disconnected,
              [ sent EXCEPT ![connection] = EndSend(@, "update", "ok") ],
              message, tick)
    /\ UNCHANGED << httpVars,
                    client_state, sess, cause, tick, message, stalled, now,
                    tickReg, tickCalls, added >>

\* An except clause that logs the error and forgets to collect the connection.
BcastSendFail_noCleanup ==
    /\ schedPc = "sending"
    /\ ~ stalled
    /\ FanOut(it_index, disconnected,
              [ sent EXCEPT ![connection] = EndSend(@, "update", "fail") ],
              message, tick)
    /\ UNCHANGED << httpVars,
                    client_state, sess, cause, tick, message, stalled, now,
                    tickReg, tickCalls, added >>

\* The awaited send_json raises: "except Exception" appends the connection
\* to the disconnected list and the loop goes on.
BcastSendFail ==
    /\ schedPc = "sending"
    /\ ~ stalled
    /\ FanOut(it_index, Append(disconnected, connection),
              [ sent EXCEPT ![connection] = EndSend(@, "update", "fail") ],
              message, tick)
    /\ UNCHANGED << httpVars,
                    client_state, sess, cause, tick, message, stalled, now,
                    tickReg, tickCalls, added >>

\* The awaited send_json neither returns nor raises (the peer has stopped
\* reading and the write never drains): no timeout bounds the await.
BcastSendStall ==
    /\ schedPc = "sending"
    /\ ~ stalled
    /\ stalled' = TRUE
    /\ UNCHANGED << httpVars,
                    active_connections, client_state, sess, cause, schedPc,
                    tick, it_index, connection, disconnected, message, now,
                    sent, tickReg, tickCalls, added, removeCalls, removals,
                    dropped >>

----------------------------------------------------------------------------
Next ==
    \/ \E c \in Conns :
         \/ SessStart(c)
         \/ SessAcceptOk(c)
         \/ SessAcceptFail(c)
         \/ SessInitialOk(c)
         \/ SessInitialFail(c)
         \/ SessRecvReturn(c)
         \/ SessWake(c)
         \/ TransportClose(c)
         \/ SessRecvDisconnect(c)
         \/ SessRecvError(c)
         \/ SessCancel(c)
    \/ TickSkip
    \/ TickBroadcast
    \/ BcastSendOk
    \/ BcastSendFail
    \/ BcastSendStall

Spec == Init /\ [][Next]_vars

----------------------------------------------------------------------------
\* The HTTP stats endpoints. They run without an await, call the providers
\* and return; the clock is read, and nothing of the result is kept.

\* Everything but the record of the last endpoint call.
notQuery == << active_connections, client_state, sess, cause, schedVars, now,
               sent, added, removeCalls, removals, bot_instance, hostResult,
               hostIn, botResult, botIn >>

\* GET /api/system
get_system_stats ==
    /\ lastQuery' = "system"
    /\ qCalls' = [ system |-> 1, bot |-> 0 ]
    /\ UNCHANGED notQuery

\* GET /api/bot
get_bot_stats ==
    /\ lastQuery' = "bot"
    /\ qCalls' = [ system |-> 0, bot |-> 1 ]
    /\ UNCHANGED notQuery

\* A combined endpoint that first prunes the connections that are no longer
\* CONNECTED from the registry.
get_combined_stats_prune ==
    /\ lastQuery' = "combined"
    /\ qCalls' = [ system |-> 1, bot |-> 1 ]
    /\ active_connections' =
         SelectSeq(active_connections, LAMBDA c : client_state[c] = "CONNECTED")
    /\ UNCHANGED << client_state, sess, cause, schedVars, now, sent, added,
                    removeCalls, removals, bot_instance, hostResult, hostIn,
                    botResult, botIn >>

\* GET /api/combined
get_combined_stats ==
    /\ lastQuery' = "combined"
    /\ qCalls' = [ system |-> 1, bot |-> 1 ]
    /\ UNCHANGED notQuery

QueryNext ==
    \/ Next
    \/ get_system_stats
    \/ get_bot_stats
    \/ get_combined_stats

\* Sessions and scheduler together with the stats endpoints.
QuerySpec == Init /\ [][QueryNext]_vars

----------------------------------------------------------------------------
\* The providers called on their own, on inputs of every kind.

\* Everything but the clock and the record of the direct provider calls.
notProvider == << active_connections, client_state, sess, cause, schedVars,
                 sent, added, removeCalls, removals, lastQuery, qCalls >>

\* start_webgui(bot) binds the global bot_instance.
start_webgui ==
    /\ bot_instance = "None"
    /\ bot_instance' = "bot"
    /\ UNCHANGED << notProvider, now, hostResult, hostIn, botResult, botIn >>

\* A call of get_system_info(): some step of the collection may raise.
CallSystemInfo ==
    /\ now < MaxStamps
    /\ now' = now + 1
    /\ \E fault \in BOOLEAN :
         /\ hostResult' = get_system_info(now + 1, fault)
         /\ hostIn' = [ called |-> TRUE, fault |-> fault ]
    /\ UNCHANGED << notProvider, bot_instance, botResult, botIn >>

\* A call of get_bot_info(): the bound instance may be ready or not, and
\* reading it may raise.
CallBotInfo ==
    /\ \E ready, fault \in BOOLEAN :
         /\ botResult' = get_bot_info(bot_instance, ready, fault)
         /\ botIn' = [ called |-> TRUE, instance |-> bot_instance,
                       ready |-> ready, fault |-> fault ]
    /\ UNCHANGED << notProvider, now, bot_instance, hostResult, hostIn >>

ProviderNext ==
    \/ start_webgui
    \/ CallSystemInfo
    \/ CallBotInfo

ProviderSpec == Init /\ [][ProviderNext]_vars

----------------------------------------------------------------------------
\* What the event loop guarantees: the timers of "asyncio.sleep(1)",
\* "asyncio.sleep(0.1)" and of the 1.0 s receive time-out fire, a receive on
\* a closed transport raises, the send_json of the initial message returns
\* or raises, and so does a send_json of broadcast that has not stalled. Clients connecting, transports closing, faults
\* and cancellations are not guaranteed to happen.
Fairness ==
    /\ WF_vars(TickSkip)
    /\ WF_vars(TickBroadcast)
    /\ WF_vars(BcastSendOk \/ BcastSendFail)
    /\ \A c \in Conns :
         /\ WF_vars(SessInitialOk(c) \/ SessInitialFail(c))
         /\ WF_vars(SessRecvReturn(c))
         /\ WF_vars(SessWake(c))
         /\ WF_vars(SessRecvDisconnect(c))

FairSpec == Spec /\ Fairness

TypeOK ==
    /\ Elems(active_connections) \subseteq Conns
    /\ client_state \in [ Conns -> { "CONNECTING", "CONNECTED", "DISCONNECTED" } ]
    /\ sess \in [ Conns -> { "new", "accept", "initial", "recv", "sleep", "closed" } ]
    /\ schedPc \in { "sleep", "sending" }
    /\ tick \in 0 .. MaxTicks
    /\ it_index \in 0 .. NumConns
    /\ connection \in Conns \cup { NoConn }
    /\ stalled \in BOOLEAN
    /\ dropped \subseteq Conns
    /\ lastQuery \in { "none", "system", "bot", "combined" }
    /\ bot_instance \in { "None", "bot" }
    /\ botResult.status \in { "none", "not_connected", "online", "starting",
                              "error" }

----------------------------------------------------------------------------
\* Vocabulary of the properties.

\* The session of c is between the return of connect and its termination.
SessionOpen(c) == sess[c] \in { "initial", "recv", "sleep" }

\* The send_json calls of tick t on connection c.
TickSends(c, t) ==
    { i \in 1 .. Len(sent[c]) : sent[c][i].type = "update" /\ sent[c][i].tick = t }

\* How the send of the current tick to c ended ("none": no send was made).
TickRes(c) ==
    IF TickSends(c, tick) = {} THEN "none"
    ELSE sent[c][CHOOSE i \in TickSends(c, tick) : TRUE].res

\* broadcast has returned from the fan-out of the current tick.
BroadcastReturned == tick > 0 /\ schedPc = "sleep" /\ tickReg # << >>

----------------------------------------------------------------------------
\* C1: a connection is in the registry if and only if its session is open
\* (between registration and termination), in every reachable state.
C1_RegistryIffOpen ==
    \A c \in Conns : InList(active_connections, c) <=> SessionOpen(c)

\* C2: when broadcast returns from a tick whose registry was {a, b}, in which
\* the send to a raised and the send to b returned, b has been delivered the
\* tick's snapshot and a is no longer registered.
C2_FailedRemovedOtherServed ==
    \A a, b \in Conns :
        ( /\ a # b
          /\ BroadcastReturned
          /\ Elems(tickReg) = { a, b }
          /\ TickRes(a) = "fail"
          /\ TickRes(b) = "ok" )
        => /\ ~ InList(active_connections, a)
           /\ \E i \in TickSends(b, tick) :
                sent[b][i].system = message /\ sent[b][i].res = "ok"

\* C2 witness: the failing connection came first in the list, the other one
\* was served after it, and broadcast has returned.
C2_Witness ==
    \E a, b \in Conns :
        /\ a # b
        /\ BroadcastReturned
        /\ tickReg = << a, b >>
        /\ TickRes(a) = "fail"
        /\ TickRes(b) = "ok"
        /\ ~ InList(active_connections, a)

\* C3: on every connection the first send_json call is the session's
\* "initial" message; no "update" is sent on it before.
C3_InitialBeforeUpdate ==
    \A c \in Conns :
        \A i \in 1 .. Len(sent[c]) :
            sent[c][i].type = "update" => i > 1 /\ sent[c][1].type = "initial"

\* C3 witness: a connection that was registered while the fan-out of the
\* current tick was suspended in a send has been sent that tick's update,
\* after its initial message.
C3_Witness ==
    \E c \in Conns :
        /\ tick > 0
        /\ tickReg # << >>
        /\ ~ InList(tickReg, c)
        /\ TickSends(c, tick) # {}
        /\ sent[c][1].type = "initial"

\* C4: a terminated session has left no connection in the registry, and the
\* removal of a connection that was registered took effect exactly once.
C4_TerminatedIsRemoved ==
    \A c \in Conns :
        sess[c] = "closed" =>
            /\ ~ InList(active_connections, c)
            /\ (c \in added => removals[c] = 1)

\* C5: a send that never completes does not hold back the tick's sends to
\* the other connections: when the awaited send can no longer return, every
\* other connection that was registered when the fan-out began and is still
\* registered and connected has had its send attempted.
C5_SendsIndependent ==
    stalled =>
        \A c \in Elems(tickReg) \ { connection } :
            (InList(active_connections, c) /\ client_state[c] = "CONNECTED")
            => TickSends(c, tick) # {}

\* C6: Add and Remove are idempotent: on the current registry, doing either
\* twice for a connection leaves the registry as doing it once does.
C6_AddRemoveIdempotent ==
    \A c \in Conns :
        /\ connect(connect(active_connections, c), c) = connect(active_connections, c)
        /\ disconnect(disconnect(active_connections, c), c)
             = disconnect(active_connections, c)

\* C7: the registry holds exactly the connections that were added and on
\* which disconnect was never called, each once: its length is their number,
\* whatever the interleaving of sessions and broadcaster.
C7_CountMatches ==
    /\ Elems(active_connections) = { c \in added : removeCalls[c] = 0 }
    /\ Len(active_connections) = Cardinality({ c \in added : removeCalls[c] = 0 })

\* C7 witness: disconnect was called twice on one connection (by the
\* broadcaster's clean-up and by its session) while another connection is
\* still registered.
C7_Witness ==
    \E c, d \in Conns :
        /\ c # d
        /\ removeCalls[c] = 2
        /\ removals[c] = 1
        /\ InList(active_connections, d)

\* C8: a tick that found the registry empty called no metrics provider and
\* sent no message.
C8_EmptyTickCollectsNothing ==
    (tick > 0 /\ schedPc = "sleep" /\ tickReg = << >>)
    => /\ tickCalls = [ system |-> 0, bot |-> 0 ]
       /\ \A c \in Conns : TickSends(c, tick) = {}

\* C8 witness: the latest tick found the registry empty, although sessions
\* have collected snapshots of their own.
C8_Witness ==
    /\ tick > 0
    /\ schedPc = "sleep"
    /\ tickReg = << >>
    /\ tickCalls.system = 0
    /\ now > 0

\* C9: a tick with a non-empty registry collects once, and all the updates
\* of one tick, on whatever connection, carry the same snapshot (that of the
\* tick's single collection).
C9_OneSnapshotPerTick ==
    /\ (tick > 0 /\ tickReg # << >>) => tickCalls = [ system |-> 1, bot |-> 1 ]
    /\ \A c, d \in Conns :
         \A i \in 1 .. Len(sent[c]) : \A j \in 1 .. Len(sent[d]) :
             ( /\ sent[c][i].type = "update"
               /\ sent[d][j].type = "update"
               /\ sent[c][i].tick = sent[d][j].tick )
             => sent[c][i].system = sent[d][j].system
    /\ \A c \in Conns : \A i \in TickSends(c, tick) : sent[c][i].system = message

\* C9 witness: two connections were sent the update of the same tick, and a
\* session collected its own snapshot in between the two sends.
C9_Witness ==
    \E c, d \in Conns :
        /\ c # d
        /\ TickSends(c, tick) # {}
        /\ TickSends(d, tick) # {}
        /\ TickRes(c) = "ok"
        /\ now > message.timestamp

\* C10: when the collection of a tick with a non-empty registry failed, every
\* connection that was registered when the fan-out began and is still
\* registered, open and connected when broadcast returns has been sent that
\* tick's update, carrying the error-shaped snapshot.
C10_ErrorTickReachesAll ==
    (BroadcastReturned /\ message.error)
    => \A c \in Elems(tickReg) :
           ( /\ InList(active_connections, c)
             /\ SessionOpen(c)
             /\ client_state[c] = "CONNECTED" )
           => \E i \in TickSends(c, tick) : sent[c][i].system = message

\* C12: on no connection are two sends in flight at once: the session's
\* "initial" send_json and the broadcaster's "update" send_json on the same
\* connection are never both suspended.
C12_OneSendInFlight ==
    \A c \in Conns :
        Cardinality({ i \in 1 .. Len(sent[c]) : sent[c][i].res = "inflight" }) <= 1

\* The updates sent on connection c, as positions of its send_json calls.
Updates(c) == { i \in 1 .. Len(sent[c]) : sent[c][i].type = "update" }

\* C13: on every connection the updates of successive ticks follow in tick
\* order and carry collection timestamps that never decrease.
C13_UpdateStampsMonotone ==
    \A c \in Conns :
        \A i, j \in Updates(c) :
            i < j => /\ sent[c][i].tick < sent[c][j].tick
                     /\ sent[c][i].system.timestamp <= sent[c][j].system.timestamp

\* C13 witness: one connection was delivered the updates of two ticks, and
\* a session collected a snapshot of its own between the two collections.
C13_Witness ==
    \E c \in Conns :
        \E i, j \in Updates(c) :
            /\ i < j
            /\ sent[c][i].res = "ok"
            /\ sent[c][j].res = "ok"
            /\ sent[c][j].system.timestamp > sent[c][i].system.timestamp + 1

\* C18: the connections a tick sends to are connections that were in the
\* registry when its fan-out began: a connection registered while the
\* fan-out is suspended is sent no update of that tick.
C18_FanOutOverSnapshot ==
    \A c \in Conns :
        TickSends(c, tick) # {} => InList(tickReg, c)

\* C19: when broadcast returns, every connection that was in the registry
\* when the fan-out began and has stayed registered and open was the target
\* of exactly one send_json call of that tick.
C19_ExactlyOneAttempt ==
    BroadcastReturned
    => \A c \in Elems(tickReg) :
           (InList(active_connections, c) /\ SessionOpen(c))
           => Cardinality(TickSends(c, tick)) = 1

\* A step of broadcast that calls send_json on connection c.
StartsUpdate(c) ==
    /\ Len(sent'[c]) = Len(sent[c]) + 1
    /\ sent'[c][Len(sent'[c])].type = "update"

\* A step of broadcast_stats that leaves broadcast inside its fan-out loop.
StaysInFanOut ==
    /\ schedPc' = "sending"
    /\ (tick' # tick \/ it_index' # it_index)

\* C20: broadcast calls send_json only on connections whose client_state is
\* CONNECTED; the connections it visited in another state are out of the
\* registry when it returns; and as long as the fan-out loop runs, broadcast
\* removes nothing from the registry.
C20_UnconnectedNotSent ==
    /\ [](BroadcastReturned =>
            \A c \in dropped : ~ InList(active_connections, c))
    /\ [][ /\ \A c \in Conns :
                StartsUpdate(c) => client_state[c] = "CONNECTED"
           /\ StaysInFanOut =>
                /\ active_connections' = active_connections
                /\ removeCalls' = removeCalls ]_vars

\* C20 witness: the fan-out is suspended in a send after it visited a
\* registered connection that was not CONNECTED: that connection was sent
\* nothing and is still in the registry, waiting for the clean-up loop.
C20_Witness ==
    \E c \in dropped :
        /\ schedPc = "sending"
        /\ client_state[c] = "DISCONNECTED"
        /\ InList(active_connections, c)
        /\ TickSends(c, tick) = {}

\* The send_json of some tick to connection c raised.
SendFailed(c) ==
    \E i \in Updates(c) : sent[c][i].res = "fail"

\* C11: a connection to which a tick's send failed does not keep its session
\* open for ever: the session eventually leaves the open state.
C11_FailedSessionEnds ==
    \A c \in Conns : SendFailed(c) ~> ~ SessionOpen(c)

\* C14: every tick is followed by another one: whatever happened in tick n,
\* the scheduler eventually starts tick n + 1.
C14_TicksGoOn ==
    \A n \in 1 .. (MaxTicks - 1) : (tick = n) ~> (tick = n + 1)

\* C15: a stats endpoint calls each provider it reports exactly once, and
\* its step changes neither the registry nor the state, transport or
\* messages of any session, whatever sessions and scheduler are doing.
C15_QueryCallsOnceAndFrames ==
    /\ [](/\ lastQuery = "system" => qCalls = [ system |-> 1, bot |-> 0 ]
          /\ lastQuery = "bot" => qCalls = [ system |-> 0, bot |-> 1 ]
          /\ lastQuery = "combined" => qCalls = [ system |-> 1, bot |-> 1 ])
    /\ [][ lastQuery' # lastQuery =>
             UNCHANGED << active_connections, sess, client_state, sent >> ]_vars

\* C15 witness: the combined endpoint answered while the fan-out of a tick
\* was suspended in a send, one session was still sending its initial
\* message, and a registered connection had lost its transport.
C15_Witness ==
    /\ lastQuery = "combined"
    /\ schedPc = "sending"
    /\ \E c \in Conns : sess[c] = "initial"
    /\ \E c \in Conns :
         InList(active_connections, c) /\ client_state[c] = "DISCONNECTED"

\* C16: get_system_info always returns a value with the timestamp of its
\* call: the error dictionary when a step of the collection raised, the
\* metrics otherwise.
C16_HostInfoNeverRaises ==
    hostIn.called =>
        /\ hostResult.timestamp = now
        /\ hostResult.timestamp >= 1
        /\ hostResult.error = hostIn.fault

\* C16 witness: a collection that raised returned the error dictionary,
\* after earlier collections.
C16_Witness ==
    /\ hostIn.called
    /\ hostIn.fault
    /\ hostResult.error
    /\ hostResult.timestamp > 1

\* C17: without a bound instance get_bot_info returns "not_connected"; with
\* one it returns "online", "starting" or "error", and "error" whenever
\* reading the instance raised.
C17_BotStatus ==
    botIn.called =>
        /\ botIn.instance = "None" => botResult.status = "not_connected"
        /\ botIn.instance # "None" =>
             /\ botResult.status \in { "online", "starting", "error" }
             /\ botIn.fault => botResult.status = "error"
             /\ ~ botIn.fault =>
                  botResult.status = IF botIn.ready THEN "online" ELSE "starting"

\* C17 witness: get_bot_info answered "not_connected" before start_webgui
\* bound the instance; the value is still the last one returned.
C17_Witness ==
    /\ botIn.called
    /\ botIn.instance = "None"
    /\ botIn.fault
    /\ botResult.status = "not_connected"
    /\ bot_instance = "bot"

====
